---- MODULE Spec2Model ----
(***************************************************************************)
(* Model of v4c.extract.extract_v4c (src/v4c/extract.py) and its helpers   *)
(* validate_inputs, validate_mcool_files and get_promoter_coords           *)
(* (src/v4c/utils.py).  One behaviour is one call of extract_v4c: the      *)
(* arguments and the environment (file system, promoter table, contact     *)
(* matrices) are fixed in the initial state and the call runs step by step.*)
(* SpecTwice lets the same call be made a second time in the same process; *)
(* SpecPlot models one call of plot_v4c (src/v4c/plot.py) or compare_v4c   *)
(* (src/v4c/compare.py) on a table written earlier.                        *)
(*                                                                         *)
(* Python strings are sequences of symbols.  A symbol is one character,    *)
(* or a whole word where the code never looks inside it ("hg38",           *)
(* ".mcool").  The Python value None is the one-symbol sequence <<"None">>;*)
(* the empty string is <<>>.                                               *)
(***************************************************************************)
EXTENDS Integers, Sequences, FiniteSets, TLC

VARIABLES
    args,               \* the arguments of the call (a record, never changed)
    promoterFile,       \* TRUE iff genome/<genome>_promoters.bed can be read
    pc,                 \* position of the call
    outcome,            \* how the call ended: the kind of the exception that left, its
                        \* message, file and resolution, the exception first raised
                        \* and the stage it was raised in
    valid_mcool_files,  \* extract.py:118
    promoter_coords,    \* extract.py:122
    gene_mapping,       \* extract.py:123
    branch,             \* which arm of the if/elif chain at extract.py:125-161 ran
    results,            \* extract.py:163
    fi, ri, gi,         \* loop positions: file, resolution, region (1-based)
    handle,             \* the open cooler.Cooler, <<mcool, res>>, or <<>>
    trace,              \* the file accesses made and the warnings printed so
                        \* far, in order
    outfile,            \* the file at the output path
    earlier,            \* how an earlier call with the same arguments ended
    plot                \* the state of a plot_v4c or compare_v4c call

vars == <<args, promoterFile, pc, outcome, valid_mcool_files, promoter_coords,
          gene_mapping, branch, results, fi, ri, gi, handle, trace, outfile,
          earlier, plot>>

----------------------------------------------------------------------------
(* Bounds of the model *)

MaxFiles == 2
MaxResolutions == 2
MaxFlank == 2
ChromLen == 8
MaxStart == 7

----------------------------------------------------------------------------
(* Python values and helpers *)

None == <<"None">>

Truthy(s) == s /= None /\ s /= <<>>

SeqsUpTo(S, n) == UNION {[1..k -> S] : k \in 0..n}

Max(a, b) == IF a >= b THEN a ELSE b

Abs(a) == IF a >= 0 THEN a ELSE 0 - a

RECURSIVE Gcd(_, _)
Gcd(a, b) == IF b = 0 THEN a ELSE Gcd(b, a % b)

\* a float that is the quotient n / d, kept in lowest terms
Frac(n, d) ==
    LET g == Gcd(Abs(n), d)
    IN  [n |-> n \div g, d |-> d \div g]

Digits == <<"0", "1", "2", "3", "4", "5", "6", "7", "8", "9">>

DigitValue(c) == (CHOOSE i \in 1..10 : Digits[i] = c) - 1

IsDigit(c) == \E i \in 1..10 : Digits[i] = c

\* str.split(sep): the pieces of s between the occurrences of sep
RECURSIVE SplitFrom(_, _, _, _)
SplitFrom(s, sep, i, cur) ==
    IF i > Len(s) THEN <<cur>>
    ELSE IF s[i] = sep THEN <<cur>> \o SplitFrom(s, sep, i + 1, <<>>)
    ELSE SplitFrom(s, sep, i + 1, Append(cur, s[i]))

Split(s, sep) == SplitFrom(s, sep, 1, <<>>)

\* str.strip(): leading and trailing blanks removed
RECURSIVE Strip(_)
Strip(s) ==
    IF s = <<>> THEN s
    ELSE IF Head(s) = " " THEN Strip(Tail(s))
    ELSE IF s[Len(s)] = " " THEN Strip(SubSeq(s, 1, Len(s) - 1))
    ELSE s

\* int(s) succeeds
IsInt(s) == s /= <<>> /\ \A i \in 1..Len(s) : IsDigit(s[i])

\* int(s)
RECURSIVE ParseInt(_)
ParseInt(s) ==
    IF Len(s) = 1 THEN DigitValue(s[1])
    ELSE 10 * ParseInt(SubSeq(s, 1, Len(s) - 1)) + DigitValue(s[Len(s)])

\* str(n) for an integer n
RECURSIVE NatToStr(_)
NatToStr(n) ==
    IF n < 10 THEN <<Digits[n + 1]>>
    ELSE Append(NatToStr(n \div 10), Digits[(n % 10) + 1])

IntToStr(n) == IF n < 0 THEN <<"-">> \o NatToStr(0 - n) ELSE NatToStr(n)

EndsWith(s, suffix) ==
    /\ Len(s) >= Len(suffix)
    /\ SubSeq(s, Len(s) - Len(suffix) + 1, Len(s)) = suffix

----------------------------------------------------------------------------
(* The environment of the call *)

Path(name, ext) == <<name, ext>>

\* os.path.exists
ExistingPaths ==
    { Path("a", ".mcool"), Path("b", ".mcool"), Path("notes", ".txt"),
      Path("r3", ".bed"), Path("r4", ".bed"), Path("two", ".bed"),
      Path("empty", ".bed"), Path("r5", ".bed"), Path("rev", ".bed"),
      Path("good", ".tsv"), Path("sample", ".tsv"), Path("text", ".tsv"),
      Path("nocols", ".tsv"), Path("noend", ".tsv"),
      Path("headeronly", ".tsv"), Path("blank", ".tsv") }

Exists(path) == path \in ExistingPaths

\* the resolution layers stored in a contact file
Layers(mcool) == IF mcool = Path("b", ".mcool") THEN {1} ELSE {1, 2}

\* genome/<genome>_promoters.bed: chrom, start, end, gene
PromoterTable ==
    << <<<<"c">>, 1, 2, <<"A">>>>,
       <<<<"c">>, 4, 6, <<"B">>>>,
       <<<<"c">>, 5, 5, <<"A">>>>,
       <<<<"c">>, 4, 6, <<"C">>>> >>

\* the lines of a BED file, each line the sequence of its fields
BedLines(path) ==
    IF path = Path("r3", ".bed")
        THEN << <<<<"c">>, 2, 3>>, <<<<"c">>, 5, 6>> >>
    ELSE IF path = Path("r4", ".bed")
        THEN << <<<<"c">>, 2, 3, <<"A">>>>, <<<<"c">>, 6, 7, <<"B">>>>,
                <<<<"c">>, 2, 3, <<"B">>>> >>
    ELSE IF path = Path("r5", ".bed")
        THEN << <<<<"c">>, 1, 2, <<"A">>, <<"+">>>>,
                <<<<"c">>, 4, 4, <<"B">>, <<"-">>>> >>
    ELSE IF path = Path("rev", ".bed")
        THEN << <<<<"c">>, 3, 2>> >>
    ELSE IF path = Path("two", ".bed")
        THEN << <<<<"c">>, 2>>, <<<<"c">>, 5>> >>
    ELSE <<>>

\* numpy's not-a-number; contact values themselves are never negative
NaN == 0 - 1

\* entry (a, b) of the genome-wide contact matrix of one layer of one file;
\* bin 2 is unmeasured in the balanced matrix and bin 5 has no contact with
\* itself on record
Contact(mcool, res, balance, a, b) ==
    IF balance /\ (a = 2 \/ b = 2) THEN NaN
    ELSE IF a = 5 /\ b = 5 THEN 0
    ELSE IF mcool = Path("b", ".mcool") THEN Max(0, 2 - Abs(a - b))
    ELSE Max(0, 3 - Abs(a - b)) * res

----------------------------------------------------------------------------
(* validate_inputs, extract.py:22-74 *)

InputValidationError == "InputValidationError"
FileProcessingError == "FileProcessingError"
V4CError == "V4CError"

\* the coordinates check with start = end let through
CoordsInvalidStrict(coords) ==
    LET parts == Split(coords, ":")
    IN  IF Len(parts) /= 2 THEN TRUE
        ELSE LET pos == Split(parts[2], "-")
             IN  IF Len(pos) /= 2 THEN TRUE
                 ELSE IF ~IsInt(pos[1]) \/ ~IsInt(pos[2]) THEN TRUE
                 ELSE ParseInt(pos[1]) > ParseInt(pos[2])

\* extract.py:60-66: TRUE iff the coordinates check raises
CoordsInvalid(coords) ==
    LET parts == Split(coords, ":")
    IN  IF Len(parts) /= 2 THEN TRUE
        ELSE LET pos == Split(parts[2], "-")
             IN  IF Len(pos) /= 2 THEN TRUE
                 ELSE IF ~IsInt(pos[1]) \/ ~IsInt(pos[2]) THEN TRUE
                 ELSE ParseInt(pos[1]) >= ParseInt(pos[2])

\* the normalization check made only when scaling is on
NormalizationInvalidWhenScaling(a) ==
    a.scale /\ a.normalization_method \notin {<<"minmax">>, <<"self">>}

\* extract.py:73
NormalizationInvalid(a) ==
    a.normalization_method \notin {<<"minmax">>, <<"self">>}

\* validate_inputs with genes and coords made mutually exclusive
validate_inputs_exclusive(a) ==
    IF a.mcool_files = <<>> THEN "No mcool files provided"
    ELSE IF a.resolutions = <<>> THEN "No resolutions provided"
    ELSE IF \E i \in 1..Len(a.resolutions) : ~(a.resolutions[i] > 0)
        THEN "Resolutions must be positive integers"
    ELSE IF Truthy(a.genome) /\ a.genome \notin {<<"hg38">>, <<"hg19">>}
        THEN "Invalid genome version"
    ELSE IF Truthy(a.coords) /\ Truthy(a.genes)
        THEN "Specify either coords or genes"
    ELSE IF Truthy(a.coords) /\ CoordsInvalid(a.coords)
        THEN "Invalid coordinates"
    ELSE IF Truthy(a.bed_file) /\ ~Exists(a.bed_file)
        THEN "BED file not found"
    ELSE IF NormalizationInvalid(a) THEN "Invalid normalization method"
    ELSE "ok"

\* the message of the first check of validate_inputs that raises, or "ok"
validate_inputs(a) ==
    IF a.mcool_files = <<>> THEN "No mcool files provided"
    ELSE IF a.resolutions = <<>> THEN "No resolutions provided"
    ELSE IF \E i \in 1..Len(a.resolutions) : ~(a.resolutions[i] > 0)
        THEN "Resolutions must be positive integers"
    ELSE IF Truthy(a.genome) /\ a.genome \notin {<<"hg38">>, <<"hg19">>}
        THEN "Invalid genome version"
    ELSE IF Truthy(a.coords) /\ CoordsInvalid(a.coords)
        THEN "Invalid coordinates"
    ELSE IF Truthy(a.bed_file) /\ ~Exists(a.bed_file)
        THEN "BED file not found"
    ELSE IF NormalizationInvalid(a) THEN "Invalid normalization method"
    ELSE "ok"

----------------------------------------------------------------------------
(* validate_mcool_files, utils.py:45-71 *)

IsValidMcool(file) == Exists(file) /\ EndsWith(file, <<".mcool">>)

\* validate_mcool_files with a path listed twice kept once
RECURSIVE validate_mcool_files_unique(_)
validate_mcool_files_unique(mcool_files) ==
    IF mcool_files = <<>> THEN <<>>
    ELSE LET front == SubSeq(mcool_files, 1, Len(mcool_files) - 1)
             file == mcool_files[Len(mcool_files)]
         IN  IF IsValidMcool(file)
                  /\ \A i \in 1..Len(front) : front[i] /= file
                 THEN Append(validate_mcool_files_unique(front), file)
                 ELSE validate_mcool_files_unique(front)

\* validate_mcool_files that accepts the list only when every entry is valid
validate_mcool_files_strict(mcool_files) ==
    IF \A i \in 1..Len(mcool_files) : IsValidMcool(mcool_files[i])
        THEN mcool_files
        ELSE <<>>

validate_mcool_files(mcool_files) ==
    SelectSeq(mcool_files, LAMBDA file : IsValidMcool(file))

\* utils.py:59-66: what the loop does to the outside world, file by file:
\* the existence check, and the warning printed for a file that is skipped
RECURSIVE McoolChecks(_)
McoolChecks(mcool_files) ==
    IF mcool_files = <<>> THEN <<>>
    ELSE LET file == Head(mcool_files)
         IN  << <<"exists", file>> >>
                \o (IF IsValidMcool(file) THEN <<>>
                    ELSE << <<"warn", file>> >>)
                \o McoolChecks(Tail(mcool_files))

----------------------------------------------------------------------------
(* get_promoter_coords, utils.py:6-26 *)

Region(row) == <<row[1], row[2], row[3]>>

RECURSIVE RowsToRegions(_)
RowsToRegions(rows) ==
    IF rows = <<>> THEN <<>>
    ELSE <<Region(Head(rows))>> \o RowsToRegions(Tail(rows))

\* utils.py:24: the promoters of one gene symbol
PromotersOfGene(gene) ==
    RowsToRegions(SelectSeq(PromoterTable, LAMBDA row : row[4] = gene))

\* utils.py:26: the promoters overlapping [start, end] on chrom
PromotersOverlapping(chrom, start, end) ==
    RowsToRegions(SelectSeq(PromoterTable,
        LAMBDA row : row[1] = chrom /\ row[2] <= end /\ row[3] >= start))

\* utils.py:20-26 called with gene=...: TRUE iff the call raises.  An empty
\* gene symbol is falsy and falls through to the range query, which compares
\* the start column with None.
PromoterLookupRaises(gene) == ~promoterFile \/ gene = <<>>

----------------------------------------------------------------------------
(* Region resolution, extract.py:122-161 *)

\* the chain with coordinates tried before genes
BranchCoordsFirst(a) ==
    IF Truthy(a.genome) /\ Truthy(a.coords) THEN "coords"
    ELSE IF Truthy(a.genes) /\ Truthy(a.genome) THEN "genes"
    ELSE IF Truthy(a.bed_file) THEN "bed"
    ELSE "none"

\* extract.py:125-161: the arm of the if/elif chain that runs
Branch(a) ==
    IF Truthy(a.genes) /\ Truthy(a.genome) THEN "genes"
    ELSE IF Truthy(a.genome) /\ Truthy(a.coords) THEN "coords"
    ELSE IF Truthy(a.bed_file) THEN "bed"
    ELSE "none"

\* extract.py:126-128
GeneList(genes) ==
    LET parts == Split(genes, ",")
    IN  [i \in 1..Len(parts) |-> Strip(parts[i])]

\* extract.py:129-130 over the whole gene list
RECURSIVE GeneRegions(_)
GeneRegions(gene_list) ==
    IF gene_list = <<>> THEN <<>>
    ELSE PromotersOfGene(Head(gene_list)) \o GeneRegions(Tail(gene_list))

\* extract.py:132-133: gene_mapping[tuple(coord)] = gene, for each coord in turn
RECURSIVE MapRegions(_, _, _)
MapRegions(gm, regions, label) ==
    IF regions = <<>> THEN gm
    ELSE MapRegions((Head(regions) :> label) @@ gm, Tail(regions), label)

RECURSIVE GeneMapping(_, _)
GeneMapping(gm, gene_list) ==
    IF gene_list = <<>> THEN gm
    ELSE GeneMapping(
            MapRegions(gm, PromotersOfGene(Head(gene_list)), Head(gene_list)),
            Tail(gene_list))

\* the number of promoter lookups made before the loop at extract.py:127 ends
\* or a lookup raises
RECURSIVE Lookups(_)
Lookups(gene_list) ==
    IF gene_list = <<>> THEN 0
    ELSE IF PromoterLookupRaises(Head(gene_list)) THEN 1
    ELSE 1 + Lookups(Tail(gene_list))

GeneLookupRaises(gene_list) ==
    \E i \in 1..Len(gene_list) : PromoterLookupRaises(gene_list[i])

\* utils.py:20-26: what the first failing lookup raises; the table is read
\* before the gene symbol is looked at
GeneLookupError(gene_list) ==
    IF ~promoterFile THEN "FileNotFoundError" ELSE "TypeError"

PromoterPath(genome) == <<"genome/">> \o genome \o <<"_promoters.bed">>

\* extract.py:135
ParseCoords(coords) ==
    LET parts == Split(coords, ":")
        pos == Split(parts[2], "-")
    IN  [chrom |-> parts[1], start |-> ParseInt(pos[1]), end |-> ParseInt(pos[2])]

\* the midpoint rounded up
CenterRoundedUp(start, end) == (start + end + 1) \div 2

\* extract.py:137
Center(start, end) == (start + end) \div 2

\* extract.py:135-138
CoordsRegions(coords) ==
    LET c == ParseCoords(coords)
    IN  << <<c.chrom, Center(c.start, c.end), Center(c.start, c.end)>> >>

\* extract.py:142-159: TRUE iff reading the BED file raises (an empty file,
\* or fewer than three columns, whose renaming at line 154 fails)
BedRaises(path) ==
    LET lines == BedLines(path)
    IN  lines = <<>> \/ Len(lines[1]) < 3

\* extract.py:142, 154: what reading the BED file raises
BedError(path) ==
    IF BedLines(path) = <<>> THEN "EmptyDataError" ELSE "ValueError"

\* extract.py:147, 155
BedRegions(path) == RowsToRegions(BedLines(path))

\* extract.py:149-151
RECURSIVE BedRowsMapping(_, _)
BedRowsMapping(gm, rows) ==
    IF rows = <<>> THEN gm
    ELSE BedRowsMapping((Region(Head(rows)) :> Head(rows)[4]) @@ gm, Tail(rows))

BedMapping(path) ==
    LET lines == BedLines(path)
    IN  IF Len(lines[1]) >= 4 THEN BedRowsMapping(<<>>, lines) ELSE <<>>

----------------------------------------------------------------------------
(* The extraction loop, extract.py:163-211 *)

\* extract.py:171-179
Window(start, end, res, flank, use_fixed_center) ==
    IF use_fixed_center
        THEN LET row_bin_start == (start \div res) * res
             IN  [start |-> Max(0, row_bin_start - flank),
                  end |-> row_bin_start + flank]
        ELSE [start |-> Max(0, start - flank), end |-> end + flank]

\* extract.py:185-190
RowIndex(start, region_start, res, flank, use_fixed_center) ==
    IF use_fixed_center THEN flank \div res
    ELSE (start \div res) - (region_start \div res)

\* extract.py:181: the accessor rejects an unknown chromosome and a window
\* that is reversed or reaches past the end of the chromosome
FetchRaises(chrom, region_start, region_end) ==
    \/ chrom /= <<"c">>
    \/ region_end < region_start
    \/ region_end > ChromLen

\* the first bin of the fetched window and the bin after its last
FirstBin(region_start, res) == region_start \div res
EndBin(region_end, res) == (region_end + res - 1) \div res

\* extract.py:182
NanToNum(x) == IF x = NaN THEN 0 ELSE x

\* extract.py:181-192: matrix[row_index, :] of the fetched window
MatrixRow(mcool, res, balance, region_start, region_end, row_index) ==
    LET lo == FirstBin(region_start, res)
        n == EndBin(region_end, res) - lo
    IN  [j \in 1..n |->
            NanToNum(Contact(mcool, res, balance, lo + row_index, lo + j - 1))]

SeqMin(xs) == CHOOSE m \in {xs[i] : i \in 1..Len(xs)} :
                 \A i \in 1..Len(xs) : m <= xs[i]
SeqMax(xs) == CHOOSE m \in {xs[i] : i \in 1..Len(xs)} :
                 \A i \in 1..Len(xs) : m >= xs[i]

\* the scaling that divides by the first entry of the profile
SelfNormalizeByFirst(row_values, row_index) ==
    LET pivot == row_values[1]
    IN  IF pivot > 0
            THEN [j \in 1..Len(row_values) |-> Frac(row_values[j], pivot)]
            ELSE [j \in 1..Len(row_values) |-> Frac(0, 1)]

\* extract.py:196-201
SelfNormalize(row_values, row_index) ==
    LET pivot == row_values[row_index + 1]
    IN  IF pivot > 0
            THEN [j \in 1..Len(row_values) |-> Frac(row_values[j], pivot)]
            ELSE [j \in 1..Len(row_values) |-> Frac(0, 1)]

\* utils.py:39-43: normalize_data, the array-wise min-max scaling
normalize_data(data) ==
    LET min_val == SeqMin(data)
        max_val == SeqMax(data)
    IN  IF max_val > min_val
            THEN [j \in 1..Len(data) |->
                    Frac(data[j] - min_val, max_val - min_val)]
            ELSE [j \in 1..Len(data) |-> Frac(0, 1)]

\* the scaling that divides by the maximum alone
MinMaxNormalizeByMax(row_values) ==
    LET max_val == SeqMax(row_values)
    IN  [j \in 1..Len(row_values) |->
            IF max_val > 0 THEN Frac(row_values[j], max_val) ELSE Frac(0, 1)]

\* extract.py:203-204
MinMaxNormalize(row_values) ==
    LET min_val == SeqMin(row_values)
        max_val == SeqMax(row_values)
    IN  [j \in 1..Len(row_values) |->
            IF max_val > min_val
                THEN Frac(row_values[j] - min_val, max_val - min_val)
                ELSE Frac(0, 1)]

\* the normalization applied whatever the scale flag says
NormalizeAlways(row_values, row_index, scale, normalization_method) ==
    IF normalization_method = <<"self">>
        THEN SelfNormalize(row_values, row_index)
        ELSE MinMaxNormalize(row_values)

\* extract.py:195-204
Normalize(row_values, row_index, scale, normalization_method) ==
    IF scale
        THEN IF normalization_method = <<"self">>
                THEN SelfNormalize(row_values, row_index)
                ELSE MinMaxNormalize(row_values)
        ELSE [j \in 1..Len(row_values) |-> Frac(row_values[j], 1)]

\* extract.py:208
GeneName(gm, region) == IF region \in DOMAIN gm THEN gm[region] ELSE <<>>

----------------------------------------------------------------------------
(* The output table, extract.py:213-239 *)

\* the metadata columns without gene_name
MetadataColumnsNoGene ==
    << <<"mcool">>, <<"res">>, <<"chrom">>, <<"start">>, <<"end">> >>

\* extract.py:232
MetadataColumns ==
    << <<"mcool">>, <<"res">>, <<"chrom">>, <<"start">>, <<"end">>,
       <<"gene_name">> >>

\* the number of columns pandas gives a frame built from ragged rows
FrameWidth(rows) ==
    LET widths == {6 + Len(rows[i].values) : i \in 1..Len(rows)}
    IN  CHOOSE w \in widths : \A v \in widths : w >= v

\* the column names counted from the start of the first row's window as it
\* is queried under the relative policy
ColumnNamesFromWindow(rows, flank) ==
    IF rows = <<>> THEN <<>>
    ELSE LET first_row == rows[1]
             num_contact_cols == Len(first_row.values)
             total_region_start == Max(0, first_row.start - flank)
             contact_cols ==
                [i \in 1..num_contact_cols |->
                    IntToStr(total_region_start + (i - 1) * first_row.res)]
             column_names == MetadataColumns \o contact_cols
         IN  IF Len(column_names) = FrameWidth(rows) THEN column_names
             ELSE MetadataColumns \o
                    [i \in 1..(FrameWidth(rows) - 6) |->
                        <<"contact_">> \o IntToStr(i - 1)]

\* extract.py:216-238
ColumnNames(rows, flank) ==
    IF rows = <<>> THEN <<>>
    ELSE LET first_row == rows[1]
             num_contact_cols == Len(first_row.values)
             total_region_start == first_row.start - flank
             contact_cols ==
                [i \in 1..num_contact_cols |->
                    IntToStr(total_region_start + (i - 1) * first_row.res)]
             column_names == MetadataColumns \o contact_cols
         IN  IF Len(column_names) = FrameWidth(rows) THEN column_names
             ELSE MetadataColumns \o
                    [i \in 1..(FrameWidth(rows) - 6) |->
                        <<"contact_">> \o IntToStr(i - 1)]

----------------------------------------------------------------------------
(* The calls that are made *)

McoolA == Path("a", ".mcool")
McoolB == Path("b", ".mcool")
McoolGone == Path("gone", ".mcool")
NotesTxt == Path("notes", ".txt")

\* coords strings: well formed, and malformed in each way the parser knows
CoordsWellFormed ==
    { <<"c", ":", "1", "-", "4">>, <<"c", ":", "2", "-", "1", "0">> }

CoordsMalformed ==
    { <<"c">>,                             \* no ':'
      <<"c", ":", "1", "4">>,              \* no '-'
      <<"c", ":", "x", "-", "4">>,         \* a position that is no integer
      <<"c", ":", "-", "4">>,              \* an empty position
      <<"c", ":", "4", "-", "1">>,         \* start > end
      <<"c", ":", "3", "-", "3">> }        \* start = end

NoOutcome ==
    [kind |-> "none", msg |-> "", file |-> None, res |-> 0, exc |-> "none",
     stage |-> "none"]

OutputPath == Path("out", ".tsv")

\* calls that exercise the argument checks and the choice of region source
ArgsChecks ==
    [ mcool_files : {<<>>, <<McoolA>>, <<McoolGone>>, <<McoolGone, McoolA>>},
      resolutions : {<<>>, <<1>>, <<0>>, <<1, 0 - 1>>},
      coords : {None, <<>>} \cup CoordsWellFormed \cup CoordsMalformed,
      genes : {None, <<"A">>},
      genome : {None, <<"hg38">>, <<"hg19">>, <<"mm10">>},
      bed_file : {None, Path("r3", ".bed"), Path("missing", ".bed")},
      flank : {1},
      balance : {TRUE},
      scale : BOOLEAN,
      normalization_method : {<<"minmax">>, <<"self">>, <<"zscore">>},
      use_fixed_center : {FALSE},
      output : {OutputPath} ]

\* the region sources of the calls that exercise the extraction loop
SourcesExtract ==
    { [coords |-> <<"c", ":", "1", "-", "4">>, genes |-> None,
       genome |-> <<"hg38">>, bed_file |-> None],
      [coords |-> None, genes |-> <<"A", ",", " ", "B">>,
       genome |-> <<"hg38">>, bed_file |-> None],
      [coords |-> None, genes |-> <<"C", ",", "B">>,
       genome |-> <<"hg38">>, bed_file |-> None],
      [coords |-> None, genes |-> <<"Z">>,
       genome |-> <<"hg19">>, bed_file |-> None],
      [coords |-> None, genes |-> None,
       genome |-> None, bed_file |-> Path("r3", ".bed")],
      [coords |-> None, genes |-> None,
       genome |-> None, bed_file |-> Path("r4", ".bed")],
      [coords |-> None, genes |-> None,
       genome |-> None, bed_file |-> Path("r5", ".bed")],
      [coords |-> None, genes |-> None,
       genome |-> None, bed_file |-> Path("rev", ".bed")],
      [coords |-> None, genes |-> None,
       genome |-> None, bed_file |-> Path("two", ".bed")] }

\* scale and normalization_method
ScalingsExtract ==
    { <<TRUE, <<"minmax">>>>, <<TRUE, <<"self">>>>, <<FALSE, <<"minmax">>>> }

\* scale and normalization_method, scale off with either method
ScalingsWindow == ScalingsExtract \cup { <<FALSE, <<"self">>>> }

\* calls that exercise the extraction loop and the output table
ArgsExtract ==
    { [ mcool_files |-> f, resolutions |-> r,
        coords |-> s.coords, genes |-> s.genes, genome |-> s.genome,
        bed_file |-> s.bed_file,
        flank |-> fl, balance |-> TRUE, scale |-> sc[1],
        normalization_method |-> sc[2], use_fixed_center |-> fx,
        output |-> OutputPath ] :
        f \in SeqsUpTo({McoolA, McoolB, McoolGone, NotesTxt}, MaxFiles),
        r \in SeqsUpTo({1, 2}, MaxResolutions) \ {<<>>},
        s \in SourcesExtract,
        fl \in 0..MaxFlank,
        sc \in ScalingsExtract,
        fx \in BOOLEAN }

\* the promoter table is looked at by calls that name genes only
Init ==
    /\ args \in ArgsChecks \cup ArgsExtract
    /\ promoterFile \in (IF Truthy(args.genes) THEN BOOLEAN ELSE {TRUE})
    /\ pc = "validate_inputs"
    /\ outcome = NoOutcome
    /\ valid_mcool_files = <<>>
    /\ promoter_coords = <<>>
    /\ gene_mapping = <<>>
    /\ branch = "unresolved"
    /\ results = <<>>
    /\ fi = 1
    /\ ri = 1
    /\ gi = 1
    /\ handle = <<>>
    /\ trace = <<>>
    /\ outfile = <<>>
    /\ earlier = <<>>
    /\ plot = <<>>

----------------------------------------------------------------------------
(* The steps of extract_v4c, extract.py:113-246 *)

\* the handlers that let an exception pass as it is
OuterHandlerLeaking(exc) == exc

\* extract.py:243-246: the class of the exception that leaves extract_v4c
\* when exc reaches the outermost handlers
OuterHandler(exc) ==
    IF exc \in {V4CError, InputValidationError, FileProcessingError} THEN exc
    ELSE V4CError

\* extract.py:158-159, 210-211, 240-241: except Exception around the BED
\* reading, around one (file, resolution) iteration and around the save
InnerHandler(exc) == FileProcessingError

\* exc is raised outside every inner try and leaves extract_v4c
Raise(exc, msg, file, res) ==
    /\ outcome' = [kind |-> OuterHandler(exc), msg |-> msg, file |-> file,
                   res |-> res, exc |-> exc, stage |-> pc]
    /\ pc' = "done"

\* exc is raised inside one of the inner try blocks and leaves extract_v4c
RaiseWithin(exc, msg, file, res) ==
    /\ outcome' = [kind |-> OuterHandler(InnerHandler(exc)), msg |-> msg,
                   file |-> file, res |-> res, exc |-> exc, stage |-> pc]
    /\ pc' = "done"

\* extract.py:115
ValidateInputs ==
    /\ pc = "validate_inputs"
    /\ LET msg == validate_inputs(args)
       IN  IF msg /= "ok"
               THEN Raise(InputValidationError, msg, None, 0)
               ELSE pc' = "validate_mcool_files" /\ UNCHANGED outcome
    /\ UNCHANGED <<args, earlier, plot, promoterFile,
                   valid_mcool_files, promoter_coords,
                   gene_mapping, branch, results, fi, ri, gi, handle, trace,
                   outfile>>

\* extract.py:118-120; the ValueError of utils.py:69 is no V4CError and is
\* wrapped at extract.py:245-246
ValidateMcoolFiles ==
    /\ pc = "validate_mcool_files"
    /\ trace' = trace \o McoolChecks(args.mcool_files)
    /\ LET valid_files == validate_mcool_files(args.mcool_files)
       IN  IF valid_files = <<>>
               THEN /\ Raise("ValueError", "No valid .mcool files found", None,
                             0)
                    /\ UNCHANGED valid_mcool_files
               ELSE /\ valid_mcool_files' = valid_files
                    /\ pc' = "resolve_regions"
                    /\ UNCHANGED outcome
    /\ UNCHANGED <<args, earlier, plot, promoterFile,
                   promoter_coords, gene_mapping, branch,
                   results, fi, ri, gi, handle, outfile>>

\* extract.py:122-161
ResolveRegions ==
    /\ pc = "resolve_regions"
    /\ branch' = Branch(args)
    /\ CASE Branch(args) = "genes" ->
              LET gene_list == GeneList(args.genes)
              IN  /\ trace' = trace \o [i \in 1..Lookups(gene_list) |->
                                <<"read", PromoterPath(args.genome)>>]
                  /\ IF GeneLookupRaises(gene_list)
                        THEN /\ Raise(GeneLookupError(gene_list),
                                   "Unexpected error", None, 0)
                             /\ UNCHANGED <<promoter_coords, gene_mapping>>
                        ELSE /\ promoter_coords' = GeneRegions(gene_list)
                             /\ gene_mapping' = GeneMapping(<<>>, gene_list)
                             /\ pc' = "extract"
                             /\ UNCHANGED outcome
         [] Branch(args) = "coords" ->
              /\ promoter_coords' = CoordsRegions(args.coords)
              /\ pc' = "extract"
              /\ UNCHANGED <<gene_mapping, outcome, trace>>
         [] Branch(args) = "bed" ->
              /\ trace' = Append(trace, <<"read", args.bed_file>>)
              /\ IF BedRaises(args.bed_file)
                    THEN /\ RaiseWithin(BedError(args.bed_file),
                                        "Error reading BED file", None, 0)
                         /\ UNCHANGED <<promoter_coords, gene_mapping>>
                    ELSE /\ promoter_coords' = BedRegions(args.bed_file)
                         /\ gene_mapping' = BedMapping(args.bed_file)
                         /\ pc' = "extract"
                         /\ UNCHANGED outcome
         [] OTHER ->
              /\ Raise(InputValidationError,
                       "Either --coords, --genes with --genome, or --bed must be specified.",
                       None, 0)
              /\ UNCHANGED <<promoter_coords, gene_mapping, trace>>
    /\ UNCHANGED <<args, earlier, plot, promoterFile,
                   valid_mcool_files, results, fi, ri, gi,
                   handle, outfile>>

\* the open that skips a pair whose layer is not stored and goes on
OpenCoolerSkipping ==
    /\ pc = "extract"
    /\ handle = <<>>
    /\ LET mcool == valid_mcool_files[fi]
           res == args.resolutions[ri]
       IN  /\ trace' = Append(trace, <<"open", mcool, res>>)
           /\ handle' = <<mcool, res>>
           /\ gi' = IF res \in Layers(mcool) THEN 1
                    ELSE Len(promoter_coords) + 1
    /\ UNCHANGED <<args, earlier, plot, promoterFile,
                   valid_mcool_files, promoter_coords,
                   gene_mapping, branch, results, fi, ri, outfile, pc,
                   outcome>>

\* extract.py:168
OpenCooler ==
    /\ pc = "extract"
    /\ handle = <<>>
    /\ LET mcool == valid_mcool_files[fi]
           res == args.resolutions[ri]
       IN  /\ trace' = Append(trace, <<"open", mcool, res>>)
           /\ IF res \in Layers(mcool)
                 THEN /\ handle' = <<mcool, res>>
                      /\ gi' = 1
                      /\ UNCHANGED <<pc, outcome>>
                 ELSE /\ RaiseWithin("KeyError", "Error processing file",
                                     mcool, res)
                      /\ UNCHANGED <<handle, gi>>
    /\ UNCHANGED <<args, earlier, plot, promoterFile,
                   valid_mcool_files, promoter_coords,
                   gene_mapping, branch, results, fi, ri, outfile>>

\* extract.py:169-209, one region
FetchRegion ==
    /\ pc = "extract"
    /\ handle /= <<>>
    /\ gi <= Len(promoter_coords)
    /\ LET mcool == handle[1]
           res == handle[2]
           chrom == promoter_coords[gi][1]
           start == promoter_coords[gi][2]
           end == promoter_coords[gi][3]
           w == Window(start, end, res, args.flank, args.use_fixed_center)
           row_index == RowIndex(start, w.start, res, args.flank,
                                 args.use_fixed_center)
           nbins == EndBin(w.end, res) - FirstBin(w.start, res)
           row_values == MatrixRow(mcool, res, args.balance, w.start, w.end,
                                   row_index)
       IN  /\ trace' = Append(trace, <<"fetch", mcool, res, chrom, w.start, w.end>>)
           /\ IF FetchRaises(chrom, w.start, w.end) \/ row_index >= nbins
                 THEN /\ RaiseWithin(
                            IF FetchRaises(chrom, w.start, w.end)
                                THEN "ValueError" ELSE "IndexError",
                            "Error processing file", mcool, res)
                      /\ UNCHANGED <<results, gi>>
                 ELSE /\ results' = Append(results,
                            [mcool |-> mcool, res |-> res, chrom |-> chrom,
                             start |-> start, end |-> end,
                             gene_name |-> GeneName(gene_mapping,
                                                    promoter_coords[gi]),
                             values |-> Normalize(row_values, row_index,
                                           args.scale,
                                           args.normalization_method)])
                      /\ gi' = gi + 1
                      /\ UNCHANGED <<pc, outcome>>
    /\ UNCHANGED <<args, earlier, plot, promoterFile,
                   valid_mcool_files, promoter_coords,
                   gene_mapping, branch, fi, ri, handle, outfile>>

\* the table is saved as soon as the first (file, resolution) pair is through
NextPairSavingFirst ==
    /\ pc = "extract"
    /\ handle /= <<>>
    /\ gi > Len(promoter_coords)
    /\ handle' = <<>>
    /\ pc' = "save"
    /\ UNCHANGED <<args, earlier, plot, promoterFile,
                   outcome, valid_mcool_files,
                   promoter_coords, gene_mapping, branch, results, fi, ri, gi,
                   trace, outfile>>

\* extract.py:165-166, 169: the region loop ends and the next (file,
\* resolution) pair, if any, is taken up
NextPair ==
    /\ pc = "extract"
    /\ handle /= <<>>
    /\ gi > Len(promoter_coords)
    /\ handle' = <<>>
    /\ IF ri < Len(args.resolutions)
          THEN ri' = ri + 1 /\ UNCHANGED <<fi, pc>>
          ELSE IF fi < Len(valid_mcool_files)
                  THEN fi' = fi + 1 /\ ri' = 1 /\ UNCHANGED pc
                  ELSE pc' = "save" /\ UNCHANGED <<fi, ri>>
    /\ UNCHANGED <<args, earlier, plot, promoterFile,
                   outcome, valid_mcool_files,
                   promoter_coords, gene_mapping, branch, results, gi, trace,
                   outfile>>

\* extract.py:213-241; the write succeeds or not as the file system decides
SaveResults ==
    /\ pc = "save"
    /\ \E writable \in BOOLEAN :
          IF writable
             THEN /\ outfile' = [header |-> ColumnNames(results, args.flank),
                                 rows |-> results]
                  /\ trace' = Append(trace, <<"write", args.output>>)
                  /\ outcome' = [NoOutcome EXCEPT !.kind = "ok"]
                  /\ pc' = "done"
             ELSE /\ RaiseWithin("OSError", "Error saving results",
                                 args.output, 0)
                  /\ UNCHANGED <<outfile, trace>>
    /\ UNCHANGED <<args, earlier, plot, promoterFile,
                   valid_mcool_files, promoter_coords,
                   gene_mapping, branch, results, fi, ri, gi, handle>>

Next ==
    \/ ValidateInputs
    \/ ValidateMcoolFiles
    \/ ResolveRegions
    \/ OpenCooler
    \/ FetchRegion
    \/ NextPair
    \/ SaveResults

Spec == Init /\ [][Next]_vars

----------------------------------------------------------------------------
(* The calls that sweep the window arithmetic of extract.py:170-192: one
   file, one resolution, and coords whose midpoint takes every position *)

\* the coords string 'c:s-(s+1)', whose midpoint is s
CoordsAround(s) ==
    <<"c", ":">> \o NatToStr(s) \o <<"-">> \o NatToStr(s + 1)

ArgsWindow ==
    { [ mcool_files |-> <<McoolA>>, resolutions |-> <<r>>,
        coords |-> CoordsAround(s), genes |-> None, genome |-> <<"hg38">>,
        bed_file |-> None,
        flank |-> fl, balance |-> b, scale |-> sc[1],
        normalization_method |-> sc[2], use_fixed_center |-> fx,
        output |-> OutputPath ] :
        r \in {1, 2},
        s \in 0..MaxStart,
        fl \in 0..(MaxFlank + 1),
        b \in BOOLEAN,
        sc \in ScalingsWindow,
        fx \in BOOLEAN }

InitWindow ==
    /\ args \in ArgsWindow
    /\ promoterFile = TRUE
    /\ pc = "validate_inputs"
    /\ outcome = NoOutcome
    /\ valid_mcool_files = <<>>
    /\ promoter_coords = <<>>
    /\ gene_mapping = <<>>
    /\ branch = "unresolved"
    /\ results = <<>>
    /\ fi = 1
    /\ ri = 1
    /\ gi = 1
    /\ handle = <<>>
    /\ trace = <<>>
    /\ outfile = <<>>
    /\ earlier = <<>>
    /\ plot = <<>>

SpecWindow == InitWindow /\ [][Next]_vars

----------------------------------------------------------------------------
(* The same call made twice in one process *)

\* calls with scaling off
ArgsTwice == {a \in ArgsExtract : ~a.scale}

InitTwice ==
    /\ args \in ArgsTwice
    /\ promoterFile \in (IF Truthy(args.genes) THEN BOOLEAN ELSE {TRUE})
    /\ pc = "validate_inputs"
    /\ outcome = NoOutcome
    /\ valid_mcool_files = <<>>
    /\ promoter_coords = <<>>
    /\ gene_mapping = <<>>
    /\ branch = "unresolved"
    /\ results = <<>>
    /\ fi = 1
    /\ ri = 1
    /\ gi = 1
    /\ handle = <<>>
    /\ trace = <<>>
    /\ outfile = <<>>
    /\ earlier = <<>>
    /\ plot = <<>>

\* a second call that finds the rows of the first still in results
CallAgainKeepingResults ==
    /\ pc = "done"
    /\ earlier = <<>>
    /\ earlier' = [outcome |-> outcome, outfile |-> outfile, trace |-> trace]
    /\ pc' = "validate_inputs"
    /\ outcome' = NoOutcome
    /\ valid_mcool_files' = <<>>
    /\ promoter_coords' = <<>>
    /\ gene_mapping' = <<>>
    /\ branch' = "unresolved"
    /\ fi' = 1
    /\ ri' = 1
    /\ gi' = 1
    /\ handle' = <<>>
    /\ trace' = <<>>
    /\ UNCHANGED <<args, promoterFile, outfile, plot, results>>

\* extract_v4c is entered again with the same arguments: every name the
\* function uses is a parameter or a local bound anew (extract.py:118, 122,
\* 123, 163), the module keeps no state of its own (extract.py:1-20), and
\* the files on disk, the output of the first call among them, stay
CallAgain ==
    /\ pc = "done"
    /\ earlier = <<>>
    /\ earlier' = [outcome |-> outcome, outfile |-> outfile, trace |-> trace]
    /\ pc' = "validate_inputs"
    /\ outcome' = NoOutcome
    /\ valid_mcool_files' = <<>>
    /\ promoter_coords' = <<>>
    /\ gene_mapping' = <<>>
    /\ branch' = "unresolved"
    /\ results' = <<>>
    /\ fi' = 1
    /\ ri' = 1
    /\ gi' = 1
    /\ handle' = <<>>
    /\ trace' = <<>>
    /\ UNCHANGED <<args, promoterFile, outfile, plot>>

NextTwice == Next \/ CallAgain

SpecTwice == InitTwice /\ [][NextTwice]_vars

----------------------------------------------------------------------------
(* plot_v4c (plot.py:32-186) and compare_v4c (compare.py:32-228): the
   tables they read *)

\* the column names both functions require (plot.py:69, compare.py:72)
RequiredColumns ==
    << <<"mcool">>, <<"res">>, <<"chrom">>, <<"start">>, <<"end">> >>

InSeq(x, s) == \E i \in 1..Len(s) : s[i] = x

\* the text of a tab-separated file: its header line and the fields of its
\* data lines; a file of zero bytes has no header
TsvFile(path) ==
    IF path = Path("good", ".tsv")
        THEN [columns |-> RequiredColumns \o
                            << <<"gene_name">>, <<"0">>, <<"1">> >>,
              rows |-> << <<McoolA, <<"1">>, <<"c">>, <<"2">>, <<"3">>,
                            <<"A">>, <<"3">>, <<"2">>>>,
                          <<McoolB, <<"1">>, <<"c">>, <<"2">>, <<"3">>,
                            <<"A">>, <<"2">>, <<"1">>>>,
                          <<McoolA, <<"1">>, <<"c">>, <<"5">>, <<"6">>,
                            <<>>, <<"3">>, <<>>>> >>]
    ELSE IF path = Path("sample", ".tsv")
        THEN [columns |-> RequiredColumns \o << <<"contact_freqs">> >>,
              rows |-> << <<McoolA, <<"1">>, <<"c">>, <<"2">>, <<"3">>,
                            <<"[3, 2]">>>>,
                          <<McoolB, <<"2">>, <<"c">>, <<"2">>, <<"3">>,
                            <<"[2, 1]">>>> >>]
    ELSE IF path = Path("text", ".tsv")
        THEN [columns |-> RequiredColumns \o << <<"gene_name">>, <<"0">> >>,
              rows |-> << <<McoolA, <<"1">>, <<"c">>, <<"2">>, <<"3">>,
                            <<" ">>, <<"x">>>> >>]
    ELSE IF path = Path("nocols", ".tsv")
        THEN [columns |-> << <<"invalid_column">> >>,
              rows |-> << <<<<"1">>>>, <<<<"2">>>>, <<<<"3">>>> >>]
    ELSE IF path = Path("noend", ".tsv")
        THEN [columns |-> << <<"mcool">>, <<"res">>, <<"chrom">>,
                             <<"start">>, <<"gene_name">>, <<"0">> >>,
              rows |-> << <<McoolA, <<"1">>, <<"c">>, <<"2">>, <<"A">>,
                            <<"3">>>> >>]
    ELSE IF path = Path("headeronly", ".tsv")
        THEN [columns |-> RequiredColumns, rows |-> <<>>]
    ELSE [columns |-> <<>>, rows |-> <<>>]

\* pandas.read_csv raises EmptyDataError on a file without a header line
ReadCsvRaises(path) == TsvFile(path).columns = <<>>

\* pandas reads an empty field as not-a-number
ReadCell(text) == IF text = <<>> THEN <<"nan">> ELSE text

\* plot.py:68, compare.py:71: the frame read from the file
read_csv(path) ==
    LET f == TsvFile(path)
    IN  [columns |-> f.columns,
         rows |-> [i \in 1..Len(f.rows) |->
                     [j \in 1..Len(f.rows[i]) |-> ReadCell(f.rows[i][j])]]]

\* plot.py:70, compare.py:73
MissingRequiredColumns(df) ==
    \E i \in 1..Len(RequiredColumns) : ~InSeq(RequiredColumns[i], df.columns)

ColumnIndex(df, name) ==
    CHOOSE i \in 1..Len(df.columns) : df.columns[i] = name

\* row[name]
Cell(df, row, name) == row[ColumnIndex(df, name)]

\* plot.py:91, compare.py:108: float(x) succeeds
Floatable(cell) == IsInt(cell) \/ cell = <<"nan">>

\* plot.py:91, compare.py:108: list(map(float, row[6:].values)) raises
RowRaises(row) == \E j \in 7..Len(row) : ~Floatable(row[j])

\* plot.py:84: the keys of df.groupby(['mcool', 'chrom', 'start', 'end'])
PlotGroups(df) ==
    { <<Cell(df, df.rows[i], <<"mcool">>), Cell(df, df.rows[i], <<"chrom">>),
        Cell(df, df.rows[i], <<"start">>), Cell(df, df.rows[i], <<"end">>)>> :
        i \in 1..Len(df.rows) }

\* plot.py:84: the rows of one group
GroupRows(df, g) ==
    SelectSeq(df.rows, LAMBDA row :
        /\ Cell(df, row, <<"mcool">>) = g[1]
        /\ Cell(df, row, <<"chrom">>) = g[2]
        /\ Cell(df, row, <<"start">>) = g[3]
        /\ Cell(df, row, <<"end">>) = g[4])

\* compare.py:84-87: all_coords
RECURSIVE AllCoords(_)
AllCoords(dfs) ==
    IF dfs = <<>> THEN {}
    ELSE LET df == Head(dfs)
         IN  { <<Cell(df, df.rows[i], <<"chrom">>),
                 Cell(df, df.rows[i], <<"start">>),
                 Cell(df, df.rows[i], <<"end">>)>> : i \in 1..Len(df.rows) }
                \cup AllCoords(Tail(dfs))

\* compare.py:103: the rows of one frame at one coordinate
CoordRows(df, coord) ==
    SelectSeq(df.rows, LAMBDA row :
        /\ Cell(df, row, <<"chrom">>) = coord[1]
        /\ Cell(df, row, <<"start">>) = coord[2]
        /\ Cell(df, row, <<"end">>) = coord[3])

HasGeneName(df) == InSeq(<<"gene_name">>, df.columns)

\* compare.py:186-192: the gene name found for a coordinate: <<"KeyError">>
\* when a frame with rows at the coordinate has no gene_name column, else
\* <<"gene", name>> for the first frame whose first row there has a
\* truthy, non-blank gene_name (not-a-number is truthy), else <<"none">>
RECURSIVE GeneNameFromData(_, _)
GeneNameFromData(dfs, coord) ==
    IF dfs = <<>> THEN <<"none">>
    ELSE LET df == Head(dfs)
             coord_data == CoordRows(df, coord)
         IN  IF coord_data = <<>> THEN GeneNameFromData(Tail(dfs), coord)
             ELSE IF ~HasGeneName(df) THEN <<"KeyError">>
             ELSE LET g == Cell(df, coord_data[1], <<"gene_name">>)
                  IN  IF Strip(g) /= <<>> THEN <<"gene", g>>
                      ELSE GeneNameFromData(Tail(dfs), coord)

\* str.replace(sym, '') for a symbol the path holds whole
Remove(s, sym) == SelectSeq(s, LAMBDA x : x /= sym)

\* plot.py:163, compare.py:207
BaseName(output_file) == Remove(Remove(output_file, ".png"), ".pdf")

\* plot.py:169, 172: os.path.basename(mcool_file).replace('.mcool', '')
SampleName(mcool_file) == Remove(mcool_file, ".mcool")

\* plot.py:163-174: the path the figure of group g is saved to
PlotUniqueOutput(output_file, df, g) ==
    LET gene == IF HasGeneName(df)
                    THEN Cell(df, GroupRows(df, g)[1], <<"gene_name">>)
                    ELSE <<>>
        labelled == /\ HasGeneName(df)
                    /\ Strip(gene) /= <<>>
                    /\ gene /= <<"nan">>
        coord_suffix ==
            IF labelled
                THEN <<"_">> \o gene \o <<"_">> \o SampleName(g[1])
                ELSE <<"_">> \o g[2] \o <<"_">> \o g[3] \o <<"_">> \o g[4]
                        \o <<"_">> \o SampleName(g[1])
    IN  BaseName(output_file) \o coord_suffix \o <<".png">>

\* compare.py:207-214: the path the figure of one coordinate is saved to
CompareUniqueOutput(output_file, gene_name_from_data, coord) ==
    LET coord_suffix ==
            IF gene_name_from_data[1] = "gene"
                THEN <<"_">> \o gene_name_from_data[2]
                ELSE <<"_">> \o coord[1] \o <<"_">> \o coord[2] \o <<"_">>
                        \o coord[3]
    IN  BaseName(output_file) \o coord_suffix \o <<".png">>

----------------------------------------------------------------------------
(* plot_v4c and compare_v4c: the calls and their steps *)

\* plot.py:20-30: the message of the check that fails first, or "ok"
validate_plot_inputs(input_file, ylim, flank) ==
    IF ~Exists(input_file) THEN "Input file not found"
    ELSE IF ~EndsWith(input_file, <<".tsv">>)
        THEN "Input file must be a TSV file"
    ELSE IF ylim <= 0 THEN "ylim must be positive"
    ELSE IF flank <= 0 THEN "flank must be positive"
    ELSE "ok"

\* compare.py:20-30
validate_compare_inputs(input_files, ylim) ==
    IF input_files = <<>> THEN "No input files provided"
    ELSE IF \E i \in 1..Len(input_files) :
                ~Exists(input_files[i])
                    \/ ~EndsWith(input_files[i], <<".tsv">>)
        THEN LET i == CHOOSE i \in 1..Len(input_files) :
                        /\ ~Exists(input_files[i])
                              \/ ~EndsWith(input_files[i], <<".tsv">>)
                        /\ \A k \in 1..(i - 1) :
                              /\ Exists(input_files[k])
                              /\ EndsWith(input_files[k], <<".tsv">>)
             IN  IF ~Exists(input_files[i]) THEN "Input file not found"
                 ELSE "Input file must be a TSV file"
    ELSE IF ylim <= 0 THEN "ylim must be positive"
    ELSE "ok"

TablePaths ==
    { Path("good", ".tsv"), Path("sample", ".tsv"), Path("text", ".tsv"),
      Path("nocols", ".tsv"), Path("noend", ".tsv"),
      Path("headeronly", ".tsv"), Path("blank", ".tsv"),
      Path("gone", ".tsv"), NotesTxt }

OutputFiles == { None, <<>>, <<"plot", ".png">>, <<"fig", ".pdf">> }

NoPlotOutcome == [kind |-> "none", msg |-> "", exc |-> "none"]

\* the calls of plot_v4c and compare_v4c that are made
PlotCalls ==
    { [fn |-> "plot_v4c", input_files |-> <<f>>, ylim |-> y, flank |-> fl,
       output_file |-> o] :
        f \in TablePaths, y \in {0, 1}, fl \in {0, 1}, o \in OutputFiles }
    \cup
    { [fn |-> "compare_v4c", input_files |-> fs, ylim |-> y, flank |-> 1,
       output_file |-> o] :
        fs \in SeqsUpTo(TablePaths, 1)
                \cup { <<Path("good", ".tsv"), f>> : f \in TablePaths }
                \cup { <<Path("sample", ".tsv"), Path("good", ".tsv")>> },
        y \in {0, 1}, o \in OutputFiles }

\* the variables of an extract_v4c call
extractVars ==
    <<args, promoterFile, pc, outcome, valid_mcool_files, promoter_coords,
      gene_mapping, branch, results, fi, ri, gi, handle, trace, outfile,
      earlier>>

InitPlot ==
    /\ \E call \in PlotCalls :
          plot = [call |-> call, pc |-> "validate", outcome |-> NoPlotOutcome,
                  dfs |-> <<>>, todo |-> {}, saved |-> {}, shown |-> 0]
    /\ args = <<>>
    /\ promoterFile = TRUE
    /\ pc = "idle"
    /\ outcome = NoOutcome
    /\ valid_mcool_files = <<>>
    /\ promoter_coords = <<>>
    /\ gene_mapping = <<>>
    /\ branch = "unresolved"
    /\ results = <<>>
    /\ fi = 1
    /\ ri = 1
    /\ gi = 1
    /\ handle = <<>>
    /\ trace = <<>>
    /\ outfile = <<>>
    /\ earlier = <<>>

\* an exception raised outside the inner try blocks leaves the function
\* (plot.py:183-186, compare.py:225-228)
PlotRaise(exc, msg) ==
    plot' = [plot EXCEPT !.pc = "done",
                         !.outcome = [kind |-> OuterHandler(exc), msg |-> msg,
                                      exc |-> exc]]

\* an exception raised inside an inner try block, whose except Exception
\* raises FileProcessingError (plot.py:75-76, 126-127, 177-178;
\* compare.py:79-80, 219-220), leaves the function
PlotRaiseWithin(exc, msg) ==
    plot' = [plot EXCEPT !.pc = "done",
                         !.outcome = [kind |-> OuterHandler(InnerHandler(exc)),
                                      msg |-> msg, exc |-> exc]]

\* plot.py:63, compare.py:63
ValidatePlotInputs ==
    /\ plot /= <<>>
    /\ plot.pc = "validate"
    /\ LET c == plot.call
           msg == IF c.fn = "plot_v4c"
                      THEN validate_plot_inputs(c.input_files[1], c.ylim,
                                                c.flank)
                      ELSE validate_compare_inputs(c.input_files, c.ylim)
       IN  IF msg /= "ok" THEN PlotRaise(InputValidationError, msg)
           ELSE plot' = [plot EXCEPT !.pc = "read"]
    /\ UNCHANGED extractVars

\* plot.py:67-76, and one turn of the loop at compare.py:69-80: the next
\* input file is read and its columns are checked
ReadInputFile ==
    /\ plot /= <<>>
    /\ plot.pc = "read"
    /\ Len(plot.dfs) < Len(plot.call.input_files)
    /\ LET file == plot.call.input_files[Len(plot.dfs) + 1]
           df == read_csv(file)
       IN  IF ReadCsvRaises(file)
               THEN PlotRaiseWithin("EmptyDataError",
                                    "Error reading input file")
           ELSE IF MissingRequiredColumns(df)
               THEN PlotRaiseWithin(InputValidationError,
                                    "Error reading input file")
           ELSE plot' = [plot EXCEPT !.dfs = Append(plot.dfs, df)]
    /\ UNCHANGED extractVars

\* plot.py:84, compare.py:84-95: the figures to draw
CollectFigures ==
    /\ plot /= <<>>
    /\ plot.pc = "read"
    /\ Len(plot.dfs) = Len(plot.call.input_files)
    /\ plot' = [plot EXCEPT
                  !.pc = "figures",
                  !.todo = IF plot.call.fn = "plot_v4c"
                               THEN PlotGroups(plot.dfs[1])
                               ELSE AllCoords(plot.dfs)]
    /\ UNCHANGED extractVars

\* the figure is saved (plot.py:160-178, compare.py:204-220) or shown
\* (plot.py:179-181, compare.py:221-223); the file system decides whether
\* the save succeeds
SaveOrShow(unique_output, key) ==
    IF Truthy(plot.call.output_file)
        THEN \E writable \in BOOLEAN :
                IF writable
                    THEN plot' = [plot EXCEPT
                                    !.todo = plot.todo \ {key},
                                    !.saved = plot.saved \cup {unique_output}]
                    ELSE PlotRaiseWithin("OSError", "Error saving plot")
        ELSE plot' = [plot EXCEPT !.todo = plot.todo \ {key},
                                  !.shown = plot.shown + 1]

\* plot.py:84-181: the figure of one group.  pandas yields the groups in
\* the order of their keys; every order is allowed here.
PlotFigure ==
    /\ plot /= <<>>
    /\ plot.pc = "figures"
    /\ plot.call.fn = "plot_v4c"
    /\ \E g \in plot.todo :
          LET df == plot.dfs[1]
              coord_group == GroupRows(df, g)
          IN  IF \E i \in 1..Len(coord_group) : RowRaises(coord_group[i])
                  THEN PlotRaiseWithin("ValueError", "Error plotting data")
                  ELSE SaveOrShow(
                          PlotUniqueOutput(plot.call.output_file, df, g), g)
    /\ UNCHANGED extractVars

\* compare.py:95-223: the figure of one coordinate.  all_coords is a set,
\* iterated in no fixed order.  A row that cannot be plotted is skipped
\* with a warning (compare.py:147-149).
CompareFigure ==
    /\ plot /= <<>>
    /\ plot.pc = "figures"
    /\ plot.call.fn = "compare_v4c"
    /\ \E coord \in plot.todo :
          LET has_gene_name ==
                  \E i \in 1..Len(plot.dfs) : HasGeneName(plot.dfs[i])
              gene_name_from_data ==
                  IF has_gene_name THEN GeneNameFromData(plot.dfs, coord)
                  ELSE <<"none">>
          IN  IF gene_name_from_data = <<"KeyError">>
                  THEN PlotRaise("KeyError", "Unexpected error in compare_v4c")
                  ELSE SaveOrShow(
                          CompareUniqueOutput(plot.call.output_file,
                                              gene_name_from_data, coord),
                          coord)
    /\ UNCHANGED extractVars

\* plot.py:84, compare.py:95: no figure is left and the function returns
ReturnNormally ==
    /\ plot /= <<>>
    /\ plot.pc = "figures"
    /\ plot.todo = {}
    /\ plot' = [plot EXCEPT !.pc = "done",
                            !.outcome = [NoPlotOutcome EXCEPT !.kind = "ok"]]
    /\ UNCHANGED extractVars

NextPlot ==
    \/ ValidatePlotInputs
    \/ ReadInputFile
    \/ CollectFigures
    \/ PlotFigure
    \/ CompareFigure
    \/ ReturnNormally

SpecPlot == InitPlot /\ [][NextPlot]_vars

----------------------------------------------------------------------------
(* Vocabulary of the properties *)

Done == pc = "done"

Succeeded == outcome.kind = "ok"

\* region resolution (extract.py:122-161) has run
Resolved == branch /= "unresolved"

Positions(s, sym) == {i \in 1..Len(s) : s[i] = sym}

\* s reads chrom:int-int
CoordsShaped(s) ==
    \E i, j \in 1..Len(s) :
        /\ Positions(s, ":") = {i}
        /\ Positions(s, "-") = {j}
        /\ i < j
        /\ IsInt(SubSeq(s, i + 1, j - 1))
        /\ IsInt(SubSeq(s, j + 1, Len(s)))

CoordsChrom(s) == SubSeq(s, 1, (CHOOSE i \in 1..Len(s) : s[i] = ":") - 1)

CoordsStart(s) ==
    ParseInt(SubSeq(s, (CHOOSE i \in 1..Len(s) : s[i] = ":") + 1,
                       (CHOOSE j \in 1..Len(s) : s[j] = "-") - 1))

CoordsEnd(s) ==
    ParseInt(SubSeq(s, (CHOOSE j \in 1..Len(s) : s[j] = "-") + 1, Len(s)))

\* a well-formed 'chrom:start-end' with start < end
WellFormedCoords(s) == CoordsShaped(s) /\ CoordsStart(s) < CoordsEnd(s)

\* the point region at the midpoint of well-formed coords
MidpointRegion(s) ==
    <<CoordsChrom(s), (CoordsStart(s) + CoordsEnd(s)) \div 2,
                      (CoordsStart(s) + CoordsEnd(s)) \div 2>>

\* every argument passes the checks of validate_inputs
ArgumentsValid ==
    /\ args.mcool_files /= <<>>
    /\ args.resolutions /= <<>>
    /\ \A i \in 1..Len(args.resolutions) : args.resolutions[i] >= 1
    /\ Truthy(args.genome) => args.genome \in {<<"hg38">>, <<"hg19">>}
    /\ Truthy(args.coords) => WellFormedCoords(args.coords)
    /\ Truthy(args.bed_file) => args.bed_file \in ExistingPaths
    /\ args.normalization_method \in {<<"minmax">>, <<"self">>}

MissingFiles ==
    {args.mcool_files[i] : i \in 1..Len(args.mcool_files)} \ ExistingPaths

\* the trace holds an access to a contact file
FilesTouched ==
    \E i \in 1..Len(trace) : trace[i][1] \in {"exists", "open", "fetch"}

----------------------------------------------------------------------------
(* C1 *)

\* C1: if some .mcool path of an otherwise valid call does not exist, the
\* call fails with a FileProcessingError that names a missing file, and no
\* output file is created.
C1_MissingFileIsFileProcessingError ==
    (/\ Done
     /\ ArgumentsValid
     /\ Truthy(args.coords) \/ Truthy(args.genes) \/ Truthy(args.bed_file)
     /\ MissingFiles /= {})
        => /\ outcome.kind = FileProcessingError
           /\ outcome.file \in MissingFiles
           /\ outfile = <<>>

----------------------------------------------------------------------------
(* C2 *)

\* C2: with well-formed coords, start < end, and no genome build, genes or
\* BED file, region resolution succeeds with the single point region
\* (chrom, m, m), m = (start + end) // 2.
C2_CoordsAloneGiveMidpoint ==
    (/\ Resolved
     /\ Truthy(args.coords) /\ WellFormedCoords(args.coords)
     /\ ~Truthy(args.genome) /\ ~Truthy(args.genes) /\ ~Truthy(args.bed_file))
        => /\ promoter_coords = <<MidpointRegion(args.coords)>>
           /\ outcome.kind /= InputValidationError

----------------------------------------------------------------------------
(* C3 *)

\* C3 as stated: coords with a genome build and no genes resolve to all
\* promoter-table entries on that chromosome overlapping [start, end].
C3_CoordsWithGenomeExpandToPromoters ==
    (/\ Resolved
     /\ Truthy(args.coords) /\ Truthy(args.genome) /\ ~Truthy(args.genes))
        => promoter_coords =
              PromotersOverlapping(CoordsChrom(args.coords),
                                   CoordsStart(args.coords),
                                   CoordsEnd(args.coords))

\* C3 amended: coords with a genome build and no genes resolve to exactly one
\* point region (chrom, m, m), m = (start + end) // 2, unlabeled, and the
\* promoter table is not read.
C3_CoordsWithGenomeGiveMidpoint ==
    (/\ Resolved
     /\ Truthy(args.coords) /\ Truthy(args.genome) /\ ~Truthy(args.genes))
        => /\ promoter_coords = <<MidpointRegion(args.coords)>>
           /\ gene_mapping = <<>>
           /\ \A i \in 1..Len(trace) : trace[i][1] /= "read"

C3_Witness ==
    /\ Resolved
    /\ args.coords = <<"c", ":", "1", "-", "4">>
    /\ args.genome = <<"hg38">>
    /\ ~Truthy(args.genes)
    /\ promoter_coords = << <<<<"c">>, 2, 2>> >>
    /\ Len(results) = 1

----------------------------------------------------------------------------
(* C4 *)

ReadPaths == {trace[i][2] : i \in {k \in 1..Len(trace) : trace[k][1] = "read"}}

\* C4: genes with a genome build are resolved by the gene lookup whatever
\* coords and bed_file are; otherwise coords with a genome build are used
\* whatever bed_file is; otherwise the BED file if given; only the source
\* that is used is read and only it contributes regions.
C4_SourcePrecedence ==
    Resolved =>
        IF Truthy(args.genes) /\ Truthy(args.genome)
            THEN /\ promoter_coords \in
                        {<<>>, GeneRegions(GeneList(args.genes))}
                 /\ (pc /= "done" \/ Succeeded) =>
                        promoter_coords = GeneRegions(GeneList(args.genes))
                 /\ ReadPaths = {PromoterPath(args.genome)}
        ELSE IF Truthy(args.coords) /\ Truthy(args.genome)
            THEN /\ promoter_coords = <<MidpointRegion(args.coords)>>
                 /\ ReadPaths = {}
        ELSE IF Truthy(args.bed_file)
            THEN /\ promoter_coords /= <<>> =>
                        promoter_coords = BedRegions(args.bed_file)
                 /\ (pc /= "done" \/ Succeeded) => promoter_coords /= <<>>
                 /\ ReadPaths = {args.bed_file}
        ELSE /\ promoter_coords = <<>>
             /\ ReadPaths = {}
             /\ outcome.kind = InputValidationError

C4_Witness ==
    /\ Succeeded
    /\ Truthy(args.genes) /\ Truthy(args.genome)
    /\ Truthy(args.coords) /\ Truthy(args.bed_file)
    /\ promoter_coords = GeneRegions(GeneList(args.genes))
    /\ Len(outfile.rows) = 2

----------------------------------------------------------------------------
(* C5 *)

\* C5 as stated: a call with both a gene list and a coords string is rejected
\* with an error and resolved through neither of the two sources.
C5_GenesWithCoordsRejected ==
    (Truthy(args.genes) /\ Truthy(args.coords))
        => /\ branch \notin {"genes", "coords"}
           /\ ~Succeeded

\* C5 amended: a call with both a gene list and a coords string is not
\* rejected for the combination: when every argument is valid on its own,
\* validation passes, and with a genome build the regions are those of the
\* gene lookup alone; without a genome build neither source is used.
C5_GenesWithCoordsUseGeneLookup ==
    (Truthy(args.genes) /\ Truthy(args.coords) /\ ArgumentsValid)
        => /\ pc /= "validate_inputs" =>
                ~(outcome.kind = InputValidationError /\ ~Resolved)
           /\ Resolved =>
                IF Truthy(args.genome)
                    THEN /\ branch = "genes"
                         /\ promoter_coords \in
                                {<<>>, GeneRegions(GeneList(args.genes))}
                    ELSE branch \in {"bed", "none"}

C5_Witness ==
    /\ Succeeded
    /\ Truthy(args.genes) /\ Truthy(args.coords) /\ Truthy(args.genome)
    /\ ~Truthy(args.bed_file)
    /\ branch = "genes"
    /\ Len(outfile.rows) = Len(GeneRegions(GeneList(args.genes)))
    /\ outfile.rows /= <<>>

----------------------------------------------------------------------------
(* C6 *)

\* a coords string that lacks a separator, has a position that is no
\* integer, or has start >= end
MalformedCoords(s) ==
    \/ Positions(s, ":") = {}
    \/ Positions(s, "-") = {}
    \/ ~CoordsShaped(s)
    \/ CoordsStart(s) >= CoordsEnd(s)

\* C6 as stated: every coords string that is malformed makes the call fail
\* with InputValidationError (here for calls whose listed files exist, whose
\* promoter table can be read and whose output can be written).
C6_MalformedCoordsRejected ==
    (/\ Done
     /\ args.coords /= None
     /\ MalformedCoords(args.coords)
     /\ MissingFiles = {}
     /\ promoterFile
     /\ outcome.msg /= "Error saving results")
        => outcome.kind = InputValidationError

\* C6 amended: every non-empty coords string that is malformed makes the call
\* fail with InputValidationError, before any contact file is touched,
\* whatever the other arguments are (the empty string counts as no coords).
C6_NonEmptyMalformedCoordsRejected ==
    (/\ pc /= "validate_inputs"
     /\ Truthy(args.coords)
     /\ MalformedCoords(args.coords))
        => /\ Done
           /\ outcome.kind = InputValidationError
           /\ ~FilesTouched

C6_Witness ==
    /\ Done
    /\ args.coords = <<"c", ":", "3", "-", "3">>
    /\ args.mcool_files = <<McoolA>>
    /\ args.resolutions = <<1>>
    /\ args.genome = <<"hg38">>
    /\ args.normalization_method = <<"minmax">>
    /\ outcome.kind = InputValidationError
    /\ outcome.msg = "Invalid coordinates"

----------------------------------------------------------------------------
(* C7 *)

\* C7: the call fails with InputValidationError whenever mcool_files is
\* empty, resolutions is empty, a resolution is not positive, genome is given
\* and is neither hg38 nor hg19, bed_file is given and does not exist, or
\* normalization_method is neither minmax nor self, with scale true or false.
C7_InvalidArgumentsRejected ==
    (/\ pc /= "validate_inputs"
     /\ \/ args.mcool_files = <<>>
        \/ args.resolutions = <<>>
        \/ \E i \in 1..Len(args.resolutions) : args.resolutions[i] < 1
        \/ Truthy(args.genome) /\ args.genome /= <<"hg38">>
                               /\ args.genome /= <<"hg19">>
        \/ Truthy(args.bed_file) /\ args.bed_file \notin ExistingPaths
        \/ args.normalization_method /= <<"minmax">>
              /\ args.normalization_method /= <<"self">>)
        => /\ Done
           /\ outcome.kind = InputValidationError

C7_Witness ==
    /\ Done
    /\ outcome.kind = InputValidationError
    /\ outcome.msg = "Invalid normalization method"
    /\ ~args.scale
    /\ args.normalization_method = <<"zscore">>

----------------------------------------------------------------------------
(* C8 *)

\* C8: every input validation failure, the lack of a resolvable region source
\* included, is raised as InputValidationError before any contact file is
\* checked, opened or read, whether or not the listed files exist.
C8_ValidationBeforeFileAccess ==
    /\ outcome.kind = InputValidationError => ~FilesTouched
    /\ (/\ Done
        /\ ArgumentsValid
        /\ ~(Truthy(args.genes) /\ Truthy(args.genome))
        /\ ~(Truthy(args.coords) /\ Truthy(args.genome))
        /\ ~Truthy(args.bed_file))
            => outcome.kind = InputValidationError

----------------------------------------------------------------------------
(* C9 *)

\* the entries of mcool_files that exist and end in .mcool, in order
UsableFiles ==
    SelectSeq(args.mcool_files,
        LAMBDA file : file \in ExistingPaths /\ file[Len(file)] = ".mcool")

\* the opens and fetches of the trace, in order
MatrixAccesses == SelectSeq(trace, LAMBDA e : e[1] \in {"open", "fetch"})

\* rows and matrix accesses follow the nesting files, resolutions, regions
\* over the file list F
NestedOver(F) ==
    LET R == args.resolutions
        G == promoter_coords
        nR == Len(R)
        nG == Len(G)
        rows == outfile.rows
        ev == MatrixAccesses
    IN  /\ Len(rows) = Len(F) * nR * nG
        /\ \A n \in 1..Len(rows) :
              /\ rows[n].mcool = F[((n - 1) \div (nR * nG)) + 1]
              /\ rows[n].res = R[(((n - 1) \div nG) % nR) + 1]
              /\ <<rows[n].chrom, rows[n].start, rows[n].end>>
                    = G[((n - 1) % nG) + 1]
        /\ Len(ev) = Len(F) * nR * (1 + nG)
        /\ \A p \in 1..Len(ev) :
              LET b == (p - 1) \div (1 + nG)
                  o == (p - 1) % (1 + nG)
                  file == F[(b \div nR) + 1]
                  res == R[(b % nR) + 1]
              IN  IF o = 0 THEN ev[p] = <<"open", file, res>>
                  ELSE /\ ev[p][1] = "fetch"
                       /\ ev[p][2] = file
                       /\ ev[p][3] = res
                       /\ ev[p][4] = G[o][1]

\* C9 as stated: on success the output has |mcool_files| x |resolutions| x
\* |regions| rows in nested order, one open per (file, resolution) before its
\* fetches and one fetch per region.
C9_RowsPerListedFile == Succeeded => NestedOver(args.mcool_files)

\* C9 amended: on success the output has |valid files| x |resolutions| x
\* |regions| rows, the valid files being the entries of mcool_files that exist
\* and end in .mcool (duplicates kept), in nested order files, resolutions,
\* regions, with one open per (file, resolution) before its fetches and one
\* fetch per region.
C9_RowsPerValidFile == Succeeded => NestedOver(UsableFiles)

C9_Witness ==
    /\ Succeeded
    /\ args.mcool_files = <<McoolA, McoolA>>
    /\ Len(args.resolutions) = 1
    /\ Len(promoter_coords) = 1
    /\ Len(outfile.rows) = 2

----------------------------------------------------------------------------
(* C10 *)

\* the decimal string of an integer
IsIntString(s) ==
    \/ IsInt(s)
    \/ Len(s) > 1 /\ s[1] = "-" /\ IsInt(Tail(s))

WidestRow(rows) ==
    CHOOSE w \in {Len(rows[i].values) : i \in 1..Len(rows)} :
        \A i \in 1..Len(rows) : w >= Len(rows[i].values)

HeaderStartsWithMetadata(h) ==
    /\ Len(h) >= 6
    /\ h[1] = <<"mcool">>
    /\ h[2] = <<"res">>
    /\ h[3] = <<"chrom">>
    /\ h[4] = <<"start">>
    /\ h[5] = <<"end">>
    /\ h[6] = <<"gene_name">>

\* C10 as stated: every table written has the six metadata columns followed
\* by columns named by integer-valued position strings, for every list of
\* resolutions and every region list, the empty one included.
C10_HeaderAlwaysPositions ==
    Succeeded =>
        /\ HeaderStartsWithMetadata(outfile.header)
        /\ \A i \in 7..Len(outfile.header) : IsIntString(outfile.header[i])

\* C10 amended: a table written with at least one row has the six metadata
\* columns followed by one column per contact value of its widest row; these
\* are named by integer-valued position strings when the first row is a
\* widest row and contact_0, contact_1, ... otherwise; a table written with no
\* rows has no columns at all.
C10_HeaderColumns ==
    Succeeded =>
        LET h == outfile.header
            rows == outfile.rows
        IN  IF rows = <<>> THEN h = <<>>
            ELSE /\ HeaderStartsWithMetadata(h)
                 /\ Len(h) = 6 + WidestRow(rows)
                 /\ \A i \in 7..Len(h) :
                       IF Len(rows[1].values) = WidestRow(rows)
                           THEN IsIntString(h[i])
                           ELSE h[i] = <<"contact_">> \o IntToStr(i - 7)

C10_Witness ==
    /\ Succeeded
    /\ args.resolutions = <<1, 2>>
    /\ Len(outfile.rows) > 1
    /\ Len(outfile.header) > 7
    /\ \A i \in 7..Len(outfile.header) : IsIntString(outfile.header[i])

----------------------------------------------------------------------------
(* C11 *)

\* the position in ev of the open under which matrix access p is made
OpenBefore(ev, p) ==
    CHOOSE q \in 1..p :
        ev[q][1] = "open" /\ \A k \in (q + 1)..p : ev[k][1] /= "open"

\* matrix access p of ev cannot be served: the layer is not stored, the
\* accessor rejects the window, or the viewpoint row lies outside the window
AccessFails(ev, p) ==
    LET mcool == ev[p][2]
        res == ev[p][3]
    IN  IF ev[p][1] = "open" THEN res \notin Layers(mcool)
        ELSE LET region == promoter_coords[p - OpenBefore(ev, p)]
                 w == Window(region[2], region[3], res, args.flank,
                             args.use_fixed_center)
                 row_index == RowIndex(region[2], w.start, res, args.flank,
                                       args.use_fixed_center)
             IN  \/ FetchRaises(region[1], w.start, w.end)
                 \/ row_index >= EndBin(w.end, res) - FirstBin(w.start, res)

\* C11: when opening a layer, fetching a window or indexing the viewpoint row
\* fails for some (file, resolution, region), the call ends at once with a
\* FileProcessingError that names that file and that resolution; the failing
\* access is the last thing the call does, so no later triple is processed,
\* and nothing is written, so no row collected so far is salvaged.
C11_FailFast ==
    LET ev == MatrixAccesses
    IN  \A p \in 1..Len(ev) :
            AccessFails(ev, p) =>
                /\ p = Len(ev)
                /\ trace[Len(trace)] = ev[p]
                /\ Done
                /\ outcome.kind = FileProcessingError
                /\ outcome.msg = "Error processing file"
                /\ outcome.file = ev[p][2]
                /\ outcome.res = ev[p][3]
                /\ outfile = <<>>

\* a failure after rows were collected and with pairs still to come
C11_Witness ==
    /\ Done
    /\ outcome.msg = "Error processing file"
    /\ AccessFails(MatrixAccesses, Len(MatrixAccesses))
    /\ Len(results) >= 1
    /\ ri < Len(args.resolutions) \/ fi < Len(valid_mcool_files)

----------------------------------------------------------------------------
(* C12 *)

\* the trace holds a write of the output path
OutputWritten == \E i \in 1..Len(trace) : trace[i][1] = "write"

\* every (file, resolution, region) triple has given its row
AllTriplesProcessed ==
    /\ Len(results) =
          Len(valid_mcool_files) * Len(args.resolutions) * Len(promoter_coords)
    /\ \A p \in 1..Len(MatrixAccesses) : ~AccessFails(MatrixAccesses, p)
    /\ NestedOver(valid_mcool_files)

\* C12: the output path is written at most once in a call, and only by a
\* call that succeeds: the write is the last thing the call does, it follows
\* the processing of every (file, resolution, region) triple without failure
\* and stores all their rows; a call that fails during validation, region
\* resolution or extraction leaves no output and has written nothing.
C12_OutputWrittenOnceAtEnd ==
    /\ Cardinality({i \in 1..Len(trace) : trace[i][1] = "write"}) <= 1
    /\ (OutputWritten \/ outfile /= <<>>) =>
          /\ Succeeded
          /\ trace[Len(trace)] = <<"write", args.output>>
          /\ outfile.rows = results
          /\ AllTriplesProcessed
    /\ (Done /\ ~Succeeded /\ outcome.stage /= "save") =>
          /\ outfile = <<>>
          /\ ~OutputWritten

\* a table of several rows was written
C12_Witness ==
    /\ Succeeded
    /\ OutputWritten
    /\ Len(outfile.rows) >= 4
    /\ Len(valid_mcool_files) = 2

----------------------------------------------------------------------------
(* C13 *)

\* the call ended with an exception
Failed == Done /\ ~Succeeded

ErrorKinds == {V4CError, InputValidationError, FileProcessingError}

\* the exception was raised inside one of the inner try blocks of
\* extract_v4c: the BED reading, the extraction loop or the save
RaisedInInnerTry ==
    \/ outcome.stage \in {"extract", "save"}
    \/ outcome.stage = "resolve_regions" /\ branch = "bed"

\* C13 as stated: every exception that leaves extract_v4c is a V4CError,
\* InputValidationError or FileProcessingError; an InputValidationError or
\* FileProcessingError raised inside keeps its kind, and any other exception,
\* at whatever stage it is raised, leaves as a base V4CError.
C13_OthersBecomeBaseV4CError ==
    Failed =>
        /\ outcome.kind \in ErrorKinds
        /\ outcome.exc \in {InputValidationError, FileProcessingError}
              => outcome.kind = outcome.exc
        /\ outcome.exc \notin ErrorKinds => outcome.kind = V4CError

\* C13 amended: every exception that leaves extract_v4c is a V4CError,
\* InputValidationError or FileProcessingError; an InputValidationError or
\* FileProcessingError raised inside keeps its kind; any other exception
\* raised while the BED file is read, inside the extraction loop or during
\* the save leaves as FileProcessingError, and any other exception raised
\* elsewhere (file-list validation, promoter lookup) leaves as a base
\* V4CError.
C13_OthersWrappedByNearestHandler ==
    Failed =>
        /\ outcome.kind \in ErrorKinds
        /\ outcome.exc \in {InputValidationError, FileProcessingError}
              => outcome.kind = outcome.exc
        /\ outcome.exc \notin ErrorKinds =>
              outcome.kind = IF RaisedInInnerTry THEN FileProcessingError
                             ELSE V4CError

\* a low-level exception of the promoter lookup left as a base V4CError
C13_Witness ==
    /\ Failed
    /\ outcome.exc = "FileNotFoundError"
    /\ outcome.stage = "resolve_regions"
    /\ outcome.kind = V4CError

----------------------------------------------------------------------------
(* C14 *)

\* the number of columns the BED file parses to
BedColumns(path) ==
    IF BedLines(path) = <<>> THEN 0 ELSE Len(BedLines(path)[1])

\* the BED line that row n of the rows collected so far was produced from
LineOfRow(n) == ((n - 1) % Len(promoter_coords)) + 1

\* C14: in BED mode a file of exactly 3 columns gives one region per line and
\* an empty gene_name in every row; a file of 4 or more columns gives one
\* region per line and every row carries the 4th column of its line, the
\* columns from the 5th on playing no part; a file that parses to fewer than
\* 3 columns, or not at all, ends the call with FileProcessingError.
C14_BedShapes ==
    branch = "bed" =>
        LET lines == BedLines(args.bed_file)
            ncols == BedColumns(args.bed_file)
        IN  IF ncols < 3
                THEN /\ Done
                     /\ outcome.kind = FileProcessingError
                     /\ outcome.msg = "Error reading BED file"
                     /\ results = <<>>
                ELSE /\ promoter_coords =
                            [i \in 1..Len(lines) |->
                                <<lines[i][1], lines[i][2], lines[i][3]>>]
                     /\ \A n \in 1..Len(results) :
                            results[n].gene_name =
                                IF ncols = 3 THEN <<>>
                                ELSE lines[LineOfRow(n)][4]

----------------------------------------------------------------------------
(* C15 *)

\* the gene symbol whose lookup gave each region of GeneRegions(gene_list)
RECURSIVE RegionGenes(_)
RegionGenes(gene_list) ==
    IF gene_list = <<>> THEN <<>>
    ELSE [i \in 1..Len(PromotersOfGene(Head(gene_list))) |-> Head(gene_list)]
            \o RegionGenes(Tail(gene_list))

\* C15: in gene mode every row collected from a promoter interval of the
\* trimmed gene symbol G carries gene_name = G, whatever the gene list and
\* the promoter table.
C15_RowsCarryTheirGene ==
    branch = "genes" =>
        \A n \in 1..Len(results) :
            results[n].gene_name =
                RegionGenes(GeneList(args.genes))[LineOfRow(n)]

----------------------------------------------------------------------------
(* C16 *)

\* the number of bins of width res that the window [region_start, region_end)
\* reaches into
BinsSpanned(region_start, region_end, res) ==
    EndBin(region_end, res) - FirstBin(region_start, res)

\* C16: under the fixed-center policy every window queried, for every
\* resolution r, flank f and viewpoint start, spans exactly 2 * (f \div r)
\* bins of width r.
C16_FixedCenterWindowBins ==
    args.use_fixed_center =>
        \A i \in 1..Len(trace) :
            trace[i][1] = "fetch" =>
                BinsSpanned(trace[i][5], trace[i][6], trace[i][3])
                    = 2 * (args.flank \div trace[i][3])

----------------------------------------------------------------------------
(* C17 *)

\* the second of two calls has ended
SecondCallDone == earlier /= <<>> /\ Done

\* neither call was stopped by the file system refusing the write
NoWriteFailure ==
    /\ outcome.msg /= "Error saving results"
    /\ earlier.outcome.msg /= "Error saving results"

----------------------------------------------------------------------------
(* C18, C19, C20: plot_v4c and compare_v4c *)

\* the plot_v4c or compare_v4c call has ended
PlotDone == plot /= <<>> /\ plot.pc = "done"

\* ylim and flank pass the checks of plot.py:26-30 and compare.py:29-30
PlotNumbersValid ==
    /\ plot.call.ylim > 0
    /\ plot.call.fn = "plot_v4c" => plot.call.flank > 0

\* there is an input, and every input is an existing .tsv file with a header
InputsAreTables ==
    /\ plot.call.input_files /= <<>>
    /\ \A i \in 1..Len(plot.call.input_files) :
          LET file == plot.call.input_files[i]
          IN  /\ file \in ExistingPaths
              /\ file[Len(file)] = ".tsv"
              /\ TsvFile(file).columns /= <<>>

LacksRequiredColumn(file) ==
    \E i \in 1..Len(RequiredColumns) :
        \A j \in 1..Len(TsvFile(file).columns) :
            TsvFile(file).columns[j] /= RequiredColumns[i]

\* C18: plot_v4c and compare_v4c, given existing .tsv input of which a file
\* lacks one of the required columns mcool, res, chrom, start, end, end with
\* InputValidationError.
C18_MissingColumnsAreInputValidationError ==
    (/\ PlotDone
     /\ PlotNumbersValid
     /\ InputsAreTables
     /\ \E i \in 1..Len(plot.call.input_files) :
            LacksRequiredColumn(plot.call.input_files[i]))
        => plot.outcome.kind = InputValidationError

\* C19: plot_v4c and compare_v4c, given .tsv input with the required header
\* columns and no data row, end with FileProcessingError.
C19_NoRowsIsFileProcessingError ==
    (/\ PlotDone
     /\ PlotNumbersValid
     /\ InputsAreTables
     /\ \A i \in 1..Len(plot.call.input_files) :
            /\ ~LacksRequiredColumn(plot.call.input_files[i])
            /\ TsvFile(plot.call.input_files[i]).rows = <<>>)
        => plot.outcome.kind = FileProcessingError

\* C20: when plot_v4c or compare_v4c is called with output_file = P on input
\* that has the required columns and at least one data row, and returns
\* normally, a file was saved at the path P itself.
C20_FigureSavedAtOutputFile ==
    (/\ PlotDone
     /\ plot.outcome.kind = "ok"
     /\ Truthy(plot.call.output_file)
     /\ InputsAreTables
     /\ \A i \in 1..Len(plot.call.input_files) :
            /\ ~LacksRequiredColumn(plot.call.input_files[i])
            /\ TsvFile(plot.call.input_files[i]).rows /= <<>>)
        => plot.call.output_file \in plot.saved

----------------------------------------------------------------------------
(* C21 *)

\* the window that was queried for a row of results
RowWindow(row) ==
    Window(row.start, row.end, row.res, args.flank, args.use_fixed_center)

\* the index at which the profile of a row of results was taken
RowIndexOf(row) ==
    RowIndex(row.start, RowWindow(row).start, row.res, args.flank,
             args.use_fixed_center)

\* the bin of the genome that holds the viewpoint of a row of results
ViewpointBin(row) == row.start \div row.res

\* the contacts, not-a-number read as zero, between genome bin b and the
\* bins of the window of a row of results
ContactsOfBin(row, b) ==
    LET w == RowWindow(row)
        lo == w.start \div row.res
        n == BinsSpanned(w.start, w.end, row.res)
    IN  [j \in 1..n |->
            LET x == Contact(row.mcool, row.res, args.balance, b, lo + j - 1)
            IN  IF x = NaN THEN 0 ELSE x]

\* C21: under both window policies, for every region, resolution and flank
\* (windows clamped at 0 and flanks that are no multiple of the resolution
\* included), the row taken as the profile is the matrix row of the bin
\* that holds viewpoint_start: row_index = (viewpoint_start // r) -
\* (window.start // r), and with scale off the stored profile is the
\* contacts of that bin.
C21_ProfileIsViewpointRow ==
    \A n \in 1..Len(results) :
        LET row == results[n]
        IN  /\ RowIndexOf(row) =
                  ViewpointBin(row) - (RowWindow(row).start \div row.res)
            /\ ~args.scale =>
                  row.values =
                      [j \in 1..Len(row.values) |->
                          Frac(ContactsOfBin(row, ViewpointBin(row))[j], 1)]

----------------------------------------------------------------------------
(* C22 *)

\* the bin of the genome whose matrix row was taken for a row of results
TakenBin(row) == (RowWindow(row).start \div row.res) + RowIndexOf(row)

\* the profile of a row of results as it was before normalization
RawProfile(row) == ContactsOfBin(row, TakenBin(row))

Zero == [n |-> 0, d |-> 1]
One == [n |-> 1, d |-> 1]

\* C22: with scale on and the minmax method, a profile x with max(x) >
\* min(x) is stored as out[i] = (x[i] - min(x)) / (max(x) - min(x)): every
\* value lies in [0, 1], the value is 0 exactly at the positions of the
\* minimum and 1 exactly at the positions of the maximum; a profile with
\* max(x) = min(x) is stored as zeros; the length is unchanged in both cases,
\* and the stored profile is what normalize_data of utils.py gives for x.
C22_MinMaxReference ==
    (args.scale /\ args.normalization_method = <<"minmax">>) =>
        \A n \in 1..Len(results) :
            LET x == RawProfile(results[n])
                out == results[n].values
                lo == SeqMin(x)
                hi == SeqMax(x)
            IN  /\ Len(out) = Len(x)
                /\ out = normalize_data(x)
                /\ \A i \in 1..Len(x) :
                      IF hi > lo
                          THEN /\ out[i].n * (hi - lo) = (x[i] - lo) * out[i].d
                               /\ out[i].d > 0
                               /\ 0 <= out[i].n /\ out[i].n <= out[i].d
                               /\ (x[i] = lo) <=> (out[i] = Zero)
                               /\ (x[i] = hi) <=> (out[i] = One)
                          ELSE out[i] = Zero

\* a profile whose smallest contact is positive was scaled to reach 0 and 1
C22_Witness ==
    /\ Succeeded
    /\ args.scale /\ args.normalization_method = <<"minmax">>
    /\ Len(outfile.rows) = 1
    /\ LET x == RawProfile(outfile.rows[1])
           out == outfile.rows[1].values
       IN  /\ Len(x) >= 4
           /\ SeqMin(x) > 0
           /\ \E i \in 1..Len(out) : out[i] = Zero
           /\ \E i \in 1..Len(out) : out[i] = One
           /\ \E i \in 1..Len(out) : out[i] \notin {Zero, One}

----------------------------------------------------------------------------
(* C23 *)

\* C23: with scale on and the self method, a profile whose value at
\* row_index is <= 0 is stored as zeros of the same length; otherwise every
\* entry is stored divided by that value as it was before the division, so
\* the entry at row_index is exactly 1.
C23_SelfReference ==
    (args.scale /\ args.normalization_method = <<"self">>) =>
        \A n \in 1..Len(results) :
            LET x == RawProfile(results[n])
                out == results[n].values
                k == RowIndexOf(results[n]) + 1
            IN  /\ Len(out) = Len(x)
                /\ k \in 1..Len(x)
                /\ IF x[k] <= 0
                      THEN \A i \in 1..Len(x) : out[i] = Zero
                      ELSE /\ \A i \in 1..Len(x) :
                                /\ out[i].d > 0
                                /\ out[i].n * x[k] = x[i] * out[i].d
                           /\ out[k] = One

\* a profile was divided by a positive value found past its first entry
C23_Witness ==
    /\ Succeeded
    /\ args.scale /\ args.normalization_method = <<"self">>
    /\ Len(outfile.rows) = 1
    /\ LET x == RawProfile(outfile.rows[1])
           out == outfile.rows[1].values
           k == RowIndexOf(outfile.rows[1]) + 1
       IN  /\ k > 1
           /\ x[k] > 1
           /\ x[1] /= x[k]
           /\ out[k] = One
           /\ \E i \in 1..Len(out) : out[i] \notin {Zero, One}

----------------------------------------------------------------------------
(* C24 *)

\* the window of a row of results holds an unmeasured bin
WindowHasNaN(row) ==
    LET w == RowWindow(row)
        lo == w.start \div row.res
    IN  \E j \in 1..BinsSpanned(w.start, w.end, row.res) :
            Contact(row.mcool, row.res, args.balance, TakenBin(row),
                    lo + j - 1) = NaN

\* C24: with scale off the profile stored in every row is the fetched
\* matrix row with not-a-number entries replaced by zero and nothing else
\* changed, whichever normalization_method is given.
C24_RawWhenScaleOff ==
    ~args.scale =>
        \A n \in 1..Len(results) :
            LET x == RawProfile(results[n])
                out == results[n].values
            IN  /\ Len(out) = Len(x)
                /\ \A i \in 1..Len(x) : out[i] = [n |-> x[i], d |-> 1]

\* a raw profile with an unmeasured bin was stored by a call that names the
\* self method
C24_Witness ==
    /\ Succeeded
    /\ ~args.scale
    /\ args.normalization_method = <<"self">>
    /\ Len(outfile.rows) = 1
    /\ WindowHasNaN(outfile.rows[1])
    /\ LET out == outfile.rows[1].values
       IN  /\ Len(out) >= 3
           /\ \E i \in 1..Len(out) : out[i] = Zero
           /\ \E i \in 1..Len(out) : out[i].n > 1

----------------------------------------------------------------------------
(* C25 *)

\* s is the decimal string of the integer v: an optional minus sign and
\* digits without a leading zero that read as v
IsDecimalOf(s, v) ==
    LET digits == IF v < 0 THEN Tail(s) ELSE s
    IN  /\ s /= <<>>
        /\ (v < 0) <=> (s[1] = "-")
        /\ IsInt(digits)
        /\ Len(digits) > 1 => digits[1] /= "0"
        /\ ParseInt(digits) = Abs(v)

\* every row of the table has as many contact values as the first
RowsOfOneWidth(rows) ==
    \A i \in 1..Len(rows) : Len(rows[i].values) = Len(rows[1].values)

\* C25: in a table whose rows all have as many contact values as the first
\* row, the i-th contact column (i = 0 .. n-1, n the length of the first
\* row's profile) is named by the decimal string of
\* (start of first row - flank) + i * (resolution of first row).
C25_ColumnNamesFromFirstRow ==
    (Succeeded /\ outfile.rows /= <<>> /\ RowsOfOneWidth(outfile.rows)) =>
        LET first_row == outfile.rows[1]
            n == Len(first_row.values)
        IN  /\ Len(outfile.header) = 6 + n
            /\ \A i \in 0..(n - 1) :
                  IsDecimalOf(outfile.header[7 + i],
                      (first_row.start - args.flank) + i * first_row.res)

\* a table of several rows of one width whose first column name is negative
C25_Witness ==
    /\ Succeeded
    /\ Len(outfile.rows) >= 2
    /\ RowsOfOneWidth(outfile.rows)
    /\ Len(outfile.rows[1].values) >= 3
    /\ outfile.rows[1].start < args.flank
    /\ outfile.header[7][1] = "-"

----------------------------------------------------------------------------
(* C26 *)

\* C26: the contact columns are named from the window that was queried for
\* the first row: the i-th is named window.start + i * resolution, where
\* window.start is the clamped start of the policy in force, so that no
\* column name is negative.
C26_ColumnNamesFromWindowStart ==
    (Succeeded /\ outfile.rows /= <<>> /\ RowsOfOneWidth(outfile.rows)) =>
        LET first_row == outfile.rows[1]
            n == Len(first_row.values)
        IN  \A i \in 0..(n - 1) :
                /\ IsDecimalOf(outfile.header[7 + i],
                        RowWindow(first_row).start + i * first_row.res)
                /\ outfile.header[7 + i][1] /= "-"

----------------------------------------------------------------------------
(* C27 *)

\* 0 <= viewpoint_start <= viewpoint_end
WellFormedRegion(region) == 0 <= region[2] /\ region[2] <= region[3]

\* C27: every region that region resolution hands to the extraction loop,
\* from coordinates, the gene lookup or a BED file, has 0 <= viewpoint_start
\* <= viewpoint_end; no window is queried and no row is stored for a source
\* line that violates this.
C27_RegionsWellFormed ==
    /\ \A i \in 1..Len(promoter_coords) : WellFormedRegion(promoter_coords[i])
    /\ LET ev == MatrixAccesses
       IN  \A p \in 1..Len(ev) :
               ev[p][1] = "fetch" =>
                   WellFormedRegion(promoter_coords[p - OpenBefore(ev, p)])
    /\ \A n \in 1..Len(results) : results[n].start <= results[n].end

----------------------------------------------------------------------------
(* C28 *)

\* the fetches of the trace
Fetches == SelectSeq(trace, LAMBDA e : e[1] = "fetch")

\* C28: under the fixed-center policy row_index = flank // resolution is a
\* valid row of every matrix fetched (0 <= row_index < number of bins of the
\* window) for every viewpoint_start >= 0, viewpoints closer than flank to
\* the chromosome start included: no region fails with an index error.
C28_FixedCenterRowInRange ==
    args.use_fixed_center =>
        /\ outcome.exc /= "IndexError"
        /\ \A p \in 1..Len(Fetches) :
              LET e == Fetches[p]
                  row_index == args.flank \div e[3]
              IN  ~FetchRaises(e[4], e[5], e[6]) =>
                      /\ 0 <= row_index
                      /\ row_index < BinsSpanned(e[5], e[6], e[3])

----------------------------------------------------------------------------
(* C29 *)

\* the entries of mcool_files that do not exist or lack the .mcool suffix
UnusableFiles ==
    SelectSeq(args.mcool_files,
        LAMBDA file : ~(file \in ExistingPaths /\ file[Len(file)] = ".mcool"))

\* the warnings printed so far
Warnings == SelectSeq(trace, LAMBDA e : e[1] = "warn")

\* the call has got past the validation of its arguments and of its file list
PastFileValidation ==
    \/ pc \in {"resolve_regions", "extract", "save"}
    \/ Done /\ outcome.stage \notin {"validate_inputs", "validate_mcool_files"}

\* C29: when mcool_files holds at least one path that exists and ends in
\* .mcool, the call does not fail over its file list: once the arguments
\* have passed, every entry that does not exist or lacks the suffix is
\* skipped with one warning, no skipped file is opened, and the rows of a
\* table written belong to the valid files only, in their original relative
\* order.
C29_InvalidFilesSkipped ==
    /\ (UsableFiles /= <<>> /\ Done) =>
            outcome.stage /= "validate_mcool_files"
    /\ (UsableFiles /= <<>> /\ PastFileValidation) =>
            /\ valid_mcool_files = UsableFiles
            /\ Warnings = [i \in 1..Len(UnusableFiles) |->
                              <<"warn", UnusableFiles[i]>>]
            /\ \A p \in 1..Len(MatrixAccesses) :
                  \E k \in 1..Len(UsableFiles) :
                      MatrixAccesses[p][2] = UsableFiles[k]
            /\ Succeeded =>
                  LET rows == outfile.rows
                      per == Len(rows) \div Len(UsableFiles)
                  IN  /\ Len(rows) = per * Len(UsableFiles)
                      /\ \A n \in 1..Len(rows) :
                            rows[n].mcool = UsableFiles[((n - 1) \div per) + 1]

\* a table was written for the one valid file of a list that names a
\* missing file first
C29_Witness ==
    /\ Succeeded
    /\ args.mcool_files = <<McoolGone, McoolA>>
    /\ Warnings = << <<"warn", McoolGone>> >>
    /\ Len(outfile.rows) >= 2
    /\ \A n \in 1..Len(outfile.rows) : outfile.rows[n].mcool = McoolA

----------------------------------------------------------------------------
(* C30 *)

\* C30: in BED mode with 4 or more columns the gene_name of every row is the
\* 4th column of the BED line the row was produced from, for every BED
\* file, files in which two lines have the same (chrom, start, end) and
\* different labels included.
C30_BedLabelOfOwnLine ==
    (branch = "bed" /\ BedColumns(args.bed_file) >= 4) =>
        \A n \in 1..Len(results) :
            LET line == BedLines(args.bed_file)[LineOfRow(n)]
            IN  /\ <<results[n].chrom, results[n].start, results[n].end>>
                      = <<line[1], line[2], line[3]>>
                /\ results[n].gene_name = line[4]

====
